---- MODULE Spec2Model ----
(***************************************************************************)
(* Verse: text -> visual parameter bundle.                                 *)
(*                                                                         *)
(* Two resolvers live in the repository:                                   *)
(*   - the Verse resolver (public/js/resolver.js, stored as                *)
(*     src/unnamed/part_000 lines 135-384): SpellLibrary, loadBooks,       *)
(*     matchTriggers, mergeParams, applyLaw, resolve, resolveSync;         *)
(*   - SpellResolver (src/public/js/spell book-resolver.js): init,         *)
(*     applyEffect, applyDelta, resolve.                                   *)
(*                                                                         *)
(* Strings are sequences of one-character strings.  Fractional parameters  *)
(* (tremor, tide, trails, ...) are written in hundredths: 0.1 is 10.       *)
(* Unsigned 32-bit words are pairs <<hi, lo>> of 16-bit halves.            *)
(***************************************************************************)
EXTENDS Integers, Sequences, FiniteSets, TLC

(***************************************************************************)
(* Bounds of the model.                                                    *)
(***************************************************************************)
\* longest input text given to the Verse resolver
MaxTextLen == 2
\* most rule sources named by a manifest / passed to init
MaxBooks == 2
\* most words of a seed given to SpellResolver.resolve (beside the scenario seeds)
MaxWords == 2
\* most calls of SpellResolver.init
MaxInits == 1

(***************************************************************************)
(* State.                                                                  *)
(*                                                                         *)
(* Verse resolver:                                                         *)
(*   manifest    the books list of spellbooks/index.json on the server     *)
(*   loaded, index, precedence, maxCount   the fields of SpellLibrary      *)
(*               (maxCount is <<>> while undefined, <<M>> once set)        *)
(*   call        the asynchronous call in flight (one at a time) and the   *)
(*               await it is suspended at                                  *)
(*   lastLoad    how the latest loadBooks call settled, with the outcome   *)
(*               of each of its book fetches                               *)
(*   result      what the latest resolve / resolveSync call produced       *)
(* SpellResolver:                                                          *)
(*   srBooks     the flat list `books` (classify() filters it)             *)
(*   srInit      the init call in flight: its paths, position and `all`    *)
(*   srInits     how many init calls have completed                        *)
(*   srResult    what the latest SpellResolver.resolve call produced       *)
(***************************************************************************)
VARIABLES manifest, loaded, index, precedence, maxCount, call, lastLoad, result,
          srBooks, srInit, srInits, srResult

verseVars == <<manifest, loaded, index, precedence, maxCount, call, lastLoad, result>>
spellVars == <<srBooks, srInit, srInits, srResult>>
vars == <<manifest, loaded, index, precedence, maxCount, call, lastLoad, result,
          srBooks, srInit, srInits, srResult>>

(***************************************************************************)
(* Characters and strings.                                                 *)
(***************************************************************************)
Digits == {"0", "1", "2", "3", "4", "5", "6", "7", "8", "9"}
LowerLetters == {"a", "b", "c", "g", "i", "l", "m", "n", "r", "s", "w", "d"}

\* String.prototype.charCodeAt for the characters the model uses
CharCode(c) ==
  CASE c = " " -> 32
    [] c = "*" -> 42
    [] c = "B" -> 66
    [] c = "b" -> 98
    [] OTHER -> 63

\* String.prototype.toLowerCase, one character
LowerChar(c) ==
  CASE c = "B" -> "b"
    [] c = "R" -> "r"
    [] OTHER -> c

ToLowerCase(s) == [i \in 1..Len(s) |-> LowerChar(s[i])]

\* /[a-z0-9]/ on one character
IsAlnum(c) == c \in LowerLetters \cup Digits

\* String.prototype.includes
Includes(s, t) ==
  \E i \in 1..(Len(s) - Len(t) + 1) : SubSeq(s, i, i + Len(t) - 1) = t

\* Array.prototype.includes
ArrIncludes(arr, x) == \E i \in 1..Len(arr) : arr[i] = x

\* Array.prototype.indexOf, 0-based, -1 when absent
IndexOf(arr, x) ==
  IF ArrIncludes(arr, x)
  THEN (CHOOSE i \in 1..Len(arr) : arr[i] = x /\ \A j \in 1..(i - 1) : arr[j] # x) - 1
  ELSE -1

RECURSIVE Flat(_)
\* Array.prototype.flat (depth 1)
Flat(arrs) == IF arrs = <<>> THEN <<>> ELSE Head(arrs) \o Flat(Tail(arrs))

RECURSIVE SeqsUpTo(_, _)
\* all sequences over S of length at most n
SeqsUpTo(S, n) ==
  IF n = 0 THEN {<<>>}
  ELSE LET shorter == SeqsUpTo(S, n - 1)
       IN shorter \cup {Append(s, x) : s \in shorter, x \in S}

(***************************************************************************)
(* 32-bit arithmetic of hash32 (Math.imul, ^, <<, >>>).                    *)
(***************************************************************************)
RECURSIVE Xor16(_, _, _)
\* bitwise exclusive or of the low n bits
Xor16(a, b, n) ==
  IF n = 0 THEN 0
  ELSE (((a % 2) + (b % 2)) % 2) + 2 * Xor16(a \div 2, b \div 2, n - 1)

Xor32(x, y) == <<Xor16(x[1], y[1], 16), Xor16(x[2], y[2], 16)>>

\* (a * b) mod 2^16 for 16-bit a, b
Mul16(a, b) ==
  (((((a \div 256) * (b % 256)) % 256) * 256) + ((a % 256) * b)) % 65536

\* Math.imul: the low 32 bits of the product
Imul(x, y) ==
  LET x1 == x[2] \div 256
      x0 == x[2] % 256
      y1 == y[2] \div 256
      y0 == y[2] % 256
      mid == ((x1 * y0) + (x0 * y1)) * 256 + (x0 * y0)
      lo == mid % 65536
      carry == mid \div 65536
      hi == ((x1 * y1) + carry + Mul16(x[1], y[2]) + Mul16(x[2], y[1])) % 65536
  IN <<hi, lo>>

\* h >>> 16 and h >>> 13
Shr16(x) == <<0, x[1]>>
Shr13(x) == <<x[1] \div 8192, ((x[1] % 8192) * 8) + (x[2] \div 8192)>>

\* (h << 13) | (h >>> 19)
Rotl13(x) == <<((x[1] % 8) * 8192) + (x[2] \div 8), ((x[2] % 8) * 8192) + (x[1] \div 8)>>

\* h % m for a small positive m
Mod32(x, m) == (((x[1] % m) * (65536 % m)) + (x[2] % m)) % m

RECURSIVE HashLoop(_, _, _)
HashLoop(h, s, i) ==
  IF i > Len(s) THEN h
  ELSE HashLoop(Rotl13(Imul(Xor32(h, <<0, CharCode(s[i])>>), <<52382, 11601>>)), s, i + 1)

\* hash32 (xmur3-lite): 1779033703 = 0x6A09E667, 3432918353 = 0xCC9E2D51,
\* 2246822507 = 0x85EBCA6B, 3266489909 = 0xC2B2AE35
hash32(s) ==
  LET h0 == HashLoop(Xor32(<<27145, 58983>>, <<0, Len(s)>>), s, 1)
      h1 == Imul(Xor32(h0, Shr16(h0)), <<34283, 51819>>)
      h2 == Imul(Xor32(h1, Shr13(h1)), <<49842, 44597>>)
  IN Xor32(h2, Shr16(h2))

(***************************************************************************)
(* Rule sources of the Verse resolver: the JSON files under spellbooks/.   *)
(* An entry is { trigger, triggerType?, effect?, domain? }.                *)
(***************************************************************************)
Alphabet == {"B", " "}
Texts == SeqsUpTo(Alphabet, MaxTextLen)

EmptyObject == [k \in {} |-> 0]

FileNames == {"core.json", "laws.json", "babel.json", "events.json"}

\* the manifests: each names at most MaxBooks books, none twice
Manifests == {m \in SeqsUpTo(FileNames, MaxBooks) :
                \A i, j \in 1..Len(m) : i # j => m[i] # m[j]}

\* what fetch('spellbooks/' + f).then(r => r.json()) yields when it succeeds
FileContent(f) ==
  CASE f = "core.json" ->
         << [trigger |-> <<"b">>, effect |-> [shape |-> "ring", count |-> 50],
             domain |-> "shapeDomain"],
            [trigger |-> <<"B">>, triggerType |-> "phrase",
             effect |-> [count |-> 9999, tremor |-> 500], domain |-> "colorDomain"],
            [trigger |-> <<"b", "b">>, triggerType |-> "alias",
             effect |-> [tide |-> -20, trails |-> 250]] >>
    [] f = "laws.json" ->
         << [trigger |-> <<" ">>, triggerType |-> "meta",
             effect |-> [event |-> "law", laws |-> [guards |-> [maxCount |-> 100]]],
             domain |-> "lawDomain"],
            [trigger |-> <<"b", "b">>, triggerType |-> "override",
             effect |-> [event |-> "Law",
                         laws |-> [precedence |-> <<"colorDomain", "shapeDomain">>]],
             domain |-> "lawDomain"],
            [trigger |-> <<"b">>, triggerType |-> "word",
             effect |-> [event |-> "law", laws |-> [guards |-> [maxCount |-> 0]]]],
            [trigger |-> <<" ", " ">>, triggerType |-> "phrase",
             effect |-> [event |-> "law", laws |-> [guards |-> [maxCount |-> -5]]]] >>
    [] f = "babel.json" ->
         << [trigger |-> <<"*">>, triggerType |-> "wildcard",
             effect |-> [event |-> "birth", hashToColor |-> TRUE], domain |-> "babel"],
            [trigger |-> <<"*">>, triggerType |-> "wildcard",
             effect |-> [hashToCount |-> TRUE, hashToShape |-> TRUE, hashToColor |-> TRUE],
             domain |-> "babel"] >>
    [] f = "events.json" ->
         << [trigger |-> <<"b">>, triggerType |-> "meta", effect |-> [event |-> "mask"]],
            [trigger |-> <<"b">>, triggerType |-> "phrase",
             effect |-> [event |-> "silence"], domain |-> "colorDomain"],
            [trigger |-> <<"b">>, triggerType |-> "word", effect |-> [event |-> "self"]],
            [trigger |-> <<"b", "b">>, triggerType |-> "custom",
             effect |-> [event |-> "collapse"], domain |-> "shapeDomain"],
            [trigger |-> <<"z">>, triggerType |-> "fallback", effect |-> [shape |-> "rose"]],
            [trigger |-> <<"b", "b">>, triggerType |-> "Fallback", effect |-> [count |-> 7]],
            [trigger |-> <<"z">>, triggerType |-> "fallback"] >>

\* String.prototype.toLowerCase on the type and event names of the books
LowerName(s) ==
  CASE s = "Fallback" -> "fallback"
    [] s = "Law" -> "law"
    [] OTHER -> s

\* loadBooks step 3: the index entry made of a raw entry
IndexEntry(entry) ==
  [trigger |-> entry.trigger,
   type |-> IF "triggerType" \in DOMAIN entry THEN entry.triggerType ELSE "word",
   effect |-> IF "effect" \in DOMAIN entry THEN entry.effect ELSE EmptyObject,
   domain |-> IF "domain" \in DOMAIN entry THEN entry.domain ELSE "unknown"]

\* bookJSONs.flat().map(...)
BuildIndex(bookJSONs) ==
  LET flat == Flat(bookJSONs) IN [i \in 1..Len(flat) |-> IndexEntry(flat[i])]

(***************************************************************************)
(* Matching.                                                               *)
(***************************************************************************)
RECURSIVE WordsFrom(_, _, _)
\* clean.match(/[a-z0-9]+/g) || []: the maximal alphanumeric runs
WordsFrom(clean, i, run) ==
  IF i > Len(clean) THEN (IF run = <<>> THEN <<>> ELSE <<run>>)
  ELSE IF IsAlnum(clean[i]) THEN WordsFrom(clean, i + 1, Append(run, clean[i]))
  ELSE (IF run = <<>> THEN <<>> ELSE <<run>>) \o WordsFrom(clean, i + 1, <<>>)

tokenize(text) ==
  LET clean == ToLowerCase(text) IN [clean |-> clean, words |-> WordsFrom(clean, 1, <<>>)]

\* the switch of matchTriggers for one index entry
DirectHit(ent, tok) ==
  LET t == ToLowerCase(ent.trigger) IN
  CASE ent.type = "word" -> ArrIncludes(tok.words, t)
    [] ent.type = "phrase" -> Includes(tok.clean, t)
    [] ent.type = "alias" -> ArrIncludes(tok.words, t) \/ Includes(tok.clean, t)
    [] ent.type = "wildcard" -> t = <<"*">>
    [] ent.type = "fallback" -> FALSE
    [] OTHER -> Includes(tok.clean, t)

\* the second loop's test for a fallback entry
IsFallbackEntry(ent) == LowerName(ent.type) = "fallback"

RECURSIVE Positions(_, _)
\* the positions i.. of the index whose test came out true, ascending
Positions(tests, i) ==
  IF i > Len(tests) THEN <<>>
  ELSE (IF tests[i] THEN <<i>> ELSE <<>>) \o Positions(tests, i + 1)

\* matchTriggers: the hits, as positions in the index (references to its entries)
matchTriggers(idx, text) ==
  LET tok == tokenize(text)
      hits == Positions([i \in 1..Len(idx) |-> DirectHit(idx[i], tok)], 1)
  IN IF Len(hits) = 0
     THEN Positions([i \in 1..Len(idx) |-> IsFallbackEntry(idx[i])], 1)
     ELSE hits

(***************************************************************************)
(* Merging plain parameters and dispatching events.                        *)
(***************************************************************************)
Min(a, b) == IF a < b THEN a ELSE b
Max(a, b) == IF a > b THEN a ELSE b

\* const clamp = (v, lo, hi) => Math.max(lo, Math.min(hi, v))
clamp(v, lo, hi) == Max(lo, Min(hi, v))

\* count: 400, tremor: 0.1, tide: 0.08, trails: 0.95, alignment: 0.5, variation: 0.0
DEFAULTS ==
  [count |-> 400, tremor |-> 10, tide |-> 8, trails |-> 95, alignment |-> 50, variation |-> 0]

\* the fixed shape enumeration of the wildcard hashing
SHAPES == <<"ring", "spiral", "wave", "grid", "lattice", "hex", "triangle", "square", "rose">>

\* SpellLibrary.maxCount ?? 4000, the library's maxCount being <<>> (undefined) or <<M>>
MaxCountOf(maxc) == IF maxc = <<>> THEN 4000 ELSE maxc[1]

\* out[k] = v
SetKey(obj, k, v) == [f \in DOMAIN obj \cup {k} |-> IF f = k THEN v ELSE obj[f]]

\* out[k] ?? d
GetOr(obj, k, d) == IF k \in DOMAIN obj THEN obj[k] ELSE d

\* mergeParams: every key of the effect overwrites, then the guards are applied
\* (the effects of the modelled books hold scalars only)
mergeParams(base, eff, maxc) ==
  LET out == [k \in DOMAIN base \cup DOMAIN eff |->
                IF k \in DOMAIN eff THEN eff[k] ELSE base[k]]
      c1 == SetKey(out, "count", clamp(GetOr(out, "count", DEFAULTS.count), 0, MaxCountOf(maxc)))
      c2 == SetKey(c1, "trails", clamp(GetOr(c1, "trails", DEFAULTS.trails), 0, 100))
      c3 == SetKey(c2, "tremor", clamp(GetOr(c2, "tremor", DEFAULTS.tremor), 0, 300))
  IN SetKey(c3, "tide", clamp(GetOr(c3, "tide", DEFAULTS.tide), 0, 300))

\* if (laws?.guards?.maxCount): present and truthy (a number other than 0)
HasMaxCountGuard(laws) ==
  /\ "guards" \in DOMAIN laws
  /\ "maxCount" \in DOMAIN laws.guards
  /\ laws.guards.maxCount # 0

\* applyLaw: the session st carries the library's maxCount and precedence
applyLaw(laws, st) ==
  [st EXCEPT
     !.maxCount = IF HasMaxCountGuard(laws) THEN <<laws.guards.maxCount>> ELSE @,
     !.precedence = IF "precedence" \in DOMAIN laws THEN laws.precedence ELSE @,
     !.laws = Append(@, laws)]

applyMask(eff, st) == [st EXCEPT !.masks = Append(@, eff)]
applySilence(eff, st) == [st EXCEPT !.silences = Append(@, eff)]
handleSelf(eff, st) == [st EXCEPT !.selfOps = Append(@, eff)]
\* a meta-event handler that also drops the library's maxCount
MetaEventDroppingGuard(eff, st) ==
  [st EXCEPT !.metaEvents = Append(@, eff), !.maxCount = <<>>]

handleMetaEvent(eff, st) == [st EXCEPT !.metaEvents = Append(@, eff)]

\* the wildcard hashing block of resolve's loop
WildcardHash(ent, params, seedHash, maxc) ==
  LET eff == ent.effect
      flag(k) == k \in DOMAIN eff /\ eff[k] = TRUE
      p1 == IF flag("hashToCount")
            THEN SetKey(params, "count", clamp(Mod32(seedHash, 2000) + 100, 0, MaxCountOf(maxc)))
            ELSE params
      p2 == IF flag("hashToShape")
            THEN SetKey(p1, "shape", SHAPES[Mod32(seedHash, Len(SHAPES)) + 1])
            ELSE p1
  IN IF flag("hashToColor")
     THEN SetKey(SetKey(p2, "falseColor", TRUE), "hue", Mod32(seedHash, 360))
     ELSE p2

\* one iteration of resolve's loop over the ordered hits
ApplyEntry(st, ent, seedHash) ==
  LET eff == ent.effect
      hashed == IF ent.type = "wildcard" /\ ent.trigger = <<"*">>
                THEN [st EXCEPT !.params = WildcardHash(ent, st.params, seedHash, st.maxCount)]
                ELSE st
  IN IF "event" \in DOMAIN eff
     THEN LET kind == LowerName(eff.event) IN
          CASE kind = "law" ->
                 applyLaw(IF "laws" \in DOMAIN eff THEN eff.laws ELSE EmptyObject, hashed)
            [] kind = "mask" -> applyMask(eff, hashed)
            [] kind = "silence" -> applySilence(eff, hashed)
            [] kind = "self" -> handleSelf(eff, hashed)
            [] OTHER -> handleMetaEvent(eff, hashed)
     ELSE [hashed EXCEPT !.params = mergeParams(hashed.params, eff, hashed.maxCount)]

\* the comparator's key with -1 left as it is
RankUnlistedFirst(ent, prec) == IndexOf(prec, ent.domain)

\* the comparator's key: precedence.indexOf(domain), -1 read as 1e9
Rank(ent, prec) ==
  LET i == IndexOf(prec, ent.domain) IN IF i = -1 THEN 1000000000 ELSE i

RECURSIVE SortedInsert(_, _, _, _)
\* p placed behind every position whose rank is not greater (a stable insertion)
SortedInsert(sorted, p, idx, prec) ==
  IF sorted = <<>> THEN <<p>>
  ELSE IF Rank(idx[sorted[Len(sorted)]], prec) - Rank(idx[p], prec) <= 0
       THEN Append(sorted, p)
       ELSE Append(SortedInsert(SubSeq(sorted, 1, Len(sorted) - 1), p, idx, prec),
                   sorted[Len(sorted)])

RECURSIVE StableSort(_, _, _)
\* hits.slice().sort(comparator): Array.prototype.sort is stable
StableSort(hits, idx, prec) ==
  IF hits = <<>> THEN <<>>
  ELSE SortedInsert(StableSort(SubSeq(hits, 1, Len(hits) - 1), idx, prec),
                    hits[Len(hits)], idx, prec)

\* resolve step 2: the order in which the hits are applied
OrderHits(hits, idx, prec) == IF Len(prec) > 0 THEN StableSort(hits, idx, prec) ELSE hits

\* the params a resolution starts from: { ...DEFAULTS }
InitialParams == DEFAULTS

\* a session that starts from the side-channel lists of the previous call
SessionKeepingLists(maxc, prec) ==
  [params |-> DEFAULTS, metaEvents |-> result.metaEvents, laws |-> result.laws,
   masks |-> result.masks, silences |-> result.silences, selfOps |-> result.selfOps,
   maxCount |-> maxc, precedence |-> prec]

\* the session at the start of resolve
NewSession(maxc, prec) ==
  [params |-> InitialParams, metaEvents |-> <<>>, laws |-> <<>>, masks |-> <<>>,
   silences |-> <<>>, selfOps |-> <<>>, maxCount |-> maxc, precedence |-> prec]

RECURSIVE ApplyAll(_, _, _, _, _)
\* the session after the first n entries of ordered have been applied
ApplyAll(st, ordered, n, idx, seedHash) ==
  IF n = 0 THEN st
  ELSE ApplyEntry(ApplyAll(st, ordered, n - 1, idx, seedHash), idx[ordered[n]], seedHash)

\* hash32(text || '') of every text the model resolves
HashTable == [t \in Texts |-> hash32(t)]

\* resolve without its step 4
NoFinalClamp(st) == st

\* resolve step 4: the final clamp of count
FinalClamp(st) ==
  [st EXCEPT !.params = SetKey(@, "count", clamp(@.count, 0, MaxCountOf(st.maxCount)))]

\* the synchronous part of resolve (after the load check): the returned state,
\* with the library configuration it leaves behind (maxCount, precedence) and
\* the order in which the hits were applied
ResolveLoaded(idx, maxc, prec, text) ==
  LET seedHash == HashTable[text]
      hits == matchTriggers(idx, text)
      ordered == OrderHits(hits, idx, prec)
      st == FinalClamp(ApplyAll(NewSession(maxc, prec), ordered, Len(ordered), idx, seedHash))
  IN [seedHash |-> seedHash, matches |-> hits, ordered |-> ordered, session |-> st]

(***************************************************************************)
(* SpellResolver: rule sources, matching and merging.                      *)
(***************************************************************************)
SpellFileNames == {"/spellbooks/core.json", "/spellbooks/motion.json"}

\* the paths given to init: at most MaxBooks, none twice
SpellPathLists == {m \in SeqsUpTo(SpellFileNames, MaxBooks) :
                     \A i, j \in 1..Len(m) : i # j => m[i] # m[j]}

\* what fetch(p) and r.json() yield when both succeed (normalizeEntry attaches
\* _match to the pattern entries: see PatternMatch)
SpellFileContent(p) ==
  CASE p = "/spellbooks/core.json" ->
         << [trigger |-> <<"<", "n", "u", "m", "b", "e", "r", ">">>, triggerType |-> "pattern",
             effect |-> [count |-> "<int>"]],
            [trigger |-> <<"r", "i", "n", "g">>, triggerType |-> "word",
             effect |-> [shape |-> "ring"]],
            [trigger |-> <<"c", "a", "l", "m">>, triggerType |-> "word",
             effect |-> [tremor |-> 10]] >>
    [] p = "/spellbooks/motion.json" ->
         << [trigger |-> <<"<", "b", "e", "a", "t", ">">>, triggerType |-> "pattern",
             effect |-> [bpm |-> "<int>"]],
            [trigger |-> <<"r", "i", "n", "g", " ", "c", "a", "l", "m">>, triggerType |-> "phrase",
             effect |-> [tide |-> 200, camera |-> [zoom |-> 2], deathRate |-> -20]],
            [trigger |-> <<"i", "n">>, triggerType |-> "word",
             effect |-> [tremor |-> 500, divisionRate |-> 150, glow |-> 70, divide |-> TRUE]],
            [trigger |-> <<"c", "a", "l", "m">>, triggerType |-> "alias",
             effect |-> [trails |-> 10, divisionRate |-> 30, glow |-> 70, bpm |-> 120,
                         camera |-> [pan |-> 1]]],
            [trigger |-> <<"c", "a", "l", "m">>, triggerType |-> "delta",
             effect |-> [tremor |-> -50, tide |-> 60, trails |-> 5]],
            [trigger |-> <<"r", "i", "n", "g">>, triggerType |-> "mode",
             effect |-> [mode |-> "orbit", tide |-> -20, deathRate |-> 60]] >>

\* the seeds: up to MaxWords words joined by single spaces, and the scenario
\* seeds "n ring calm" for n of one to six digits
SpellVocabulary == {<<"R", "i", "n", "g">>, <<"c", "a", "l", "m">>, <<"4", "0", "0">>}

RECURSIVE JoinWords(_)
JoinWords(ws) ==
  IF ws = <<>> THEN <<>>
  ELSE IF Len(ws) = 1 THEN ws[1]
  ELSE ws[1] \o <<" ">> \o JoinWords(Tail(ws))

ScenarioNumbers ==
  {<<"7">>, <<"4", "2">>, <<"4", "0", "0">>, <<"9", "9", "9", "9">>,
   <<"1", "2", "3", "4", "5">>, <<"1", "2", "3", "4", "5", "6">>}

ScenarioSeed(n) == n \o <<" ", "r", "i", "n", "g", " ", "c", "a", "l", "m">>

SpellSeeds ==
  {JoinWords(ws) : ws \in SeqsUpTo(SpellVocabulary, MaxWords)}
    \cup {ScenarioSeed(n) : n \in ScenarioNumbers}

\* \w of a regular expression
IsWordChar(c) == c \in LowerLetters \cup Digits \cup {"_", "R", "B"}

RECURSIVE WordRuns(_, _, _)
\* the maximal runs of \w characters, in order
WordRuns(s, i, run) ==
  IF i > Len(s) THEN (IF run = <<>> THEN <<>> ELSE <<run>>)
  ELSE IF IsWordChar(s[i]) THEN WordRuns(s, i + 1, Append(run, s[i]))
  ELSE (IF run = <<>> THEN <<>> ELSE <<run>>) \o WordRuns(s, i + 1, <<>>)

\* /\b(\d{1,5})\b/ matches a run of \w characters made of one to five digits
IsShortNumber(run) == Len(run) <= 5 /\ \A i \in 1..Len(run) : run[i] \in Digits

\* e._match(s) of normalizeEntry, as "is there a match": <number> is the only
\* known pattern token of the modelled books; an unknown token never matches
PatternMatch(trigger, s) ==
  IF trigger = <<"<", "n", "u", "m", "b", "e", "r", ">">>
  THEN \E i \in 1..Len(WordRuns(s, 1, <<>>)) : IsShortNumber(WordRuns(s, 1, <<>>)[i])
  ELSE FALSE

\* a clamp that lets every value through
NoClampRange(v, range) == v

\* const clamp = (v, [a, b]) => Math.max(a, Math.min(b, v))
clampRange(v, range) == Max(range[1], Min(range[2], v))

\* RANGES = { tremor: [0, 1.2], tide: [0, 0.9], trails: [0.75, 0.98] }
RANGES == [tremor |-> <<0, 120>>, tide |-> <<0, 90>>, trails |-> <<75, 98>>]

ABSOLUTE == {"count", "shape", "mode"}
MOTION == {"tremor", "tide", "trails"}
SUM01 == {"adhesion", "alignment", "separation", "chemotaxis", "variation", "viscosity",
          "energy", "glow", "flow", "quorum"}
RATE01 == {"divisionRate", "deathRate", "branchRate"}
FLAGS == {"divide", "die", "branch", "dla", "morphogenesis", "wavefront", "replicate",
          "differentiate", "lineageTrace", "montage", "snapToBeat", "holdMs"}
NESTED == {"camera", "grade"}

\* Object.assign({}, a, b)
AssignObj(a, b) == [k \in DOMAIN a \cup DOMAIN b |-> IF k \in DOMAIN b THEN b[k] ELSE a[k]]

\* out[k] || 0 for a numeric field
NumOrZero(out, k) == IF k \in DOMAIN out THEN out[k] ELSE 0

\* applyEffect(out, eff): the effects of the modelled books hold numbers in
\* their numeric fields, so isNum holds wherever it is asked
applyEffect(out, eff) ==
  LET passthrough == {k \in DOMAIN eff : k \notin DOMAIN out /\ k \notin NESTED
                                          /\ k \notin ABSOLUTE \cup MOTION}
      keys == DOMAIN out \cup (DOMAIN eff \cap (ABSOLUTE \cup MOTION \cup NESTED \cup SUM01
                                                  \cup RATE01 \cup FLAGS)) \cup passthrough
  IN [k \in keys |->
        IF k \notin DOMAIN eff THEN out[k]
        ELSE IF k \in ABSOLUTE \cup MOTION THEN eff[k]
        ELSE IF k \in NESTED
             THEN AssignObj(IF k \in DOMAIN out THEN out[k] ELSE EmptyObject, eff[k])
        ELSE IF k \in SUM01 THEN clampRange(NumOrZero(out, k) + eff[k], <<0, 100>>)
        ELSE IF k \in RATE01 THEN Max(NumOrZero(out, k), clampRange(eff[k], <<0, 100>>))
        ELSE IF k \in FLAGS THEN (k \in DOMAIN out /\ out[k]) \/ eff[k]
        ELSE IF k \in DOMAIN out THEN out[k]
        ELSE eff[k]]

\* applyDelta(out, eff)
applyDelta(out, eff) ==
  LET d(k, dflt) == clampRange(GetOr(out, k, dflt) + eff[k], RANGES[k])
      o1 == IF "tremor" \in DOMAIN eff THEN SetKey(out, "tremor", d("tremor", 15)) ELSE out
      o2 == IF "tide" \in DOMAIN eff THEN SetKey(o1, "tide", d("tide", 18)) ELSE o1
  IN IF "trails" \in DOMAIN eff THEN SetKey(o2, "trails", d("trails", 92)) ELSE o2

\* the bundle a resolution starts from
SpellDefaults == [count |-> 400, shape |-> "none", tremor |-> 45, tide |-> 45, trails |-> 90]

RECURSIVE ApplyPass(_, _, _, _, _)
\* one pass of resolve over the first n entries of books: every entry of the
\* given type whose trigger the seed includes is applied
ApplyPass(out, books, n, type, s) ==
  IF n = 0 THEN out
  ELSE LET prev == ApplyPass(out, books, n - 1, type, s)
           e == books[n]
       IN IF e.triggerType = type /\ Includes(s, e.trigger)
          THEN (IF type = "delta" THEN applyDelta(prev, e.effect) ELSE applyEffect(prev, e.effect))
          ELSE prev

\* the positions of the entries resolve applies, in the order it applies them:
\* phrases, words, aliases, deltas, modes, each in the order of books
SpellOrder(books, s) ==
  LET hits(type) == Positions([i \in 1..Len(books) |->
                                 books[i].triggerType = type /\ Includes(s, books[i].trigger)], 1)
  IN hits("phrase") \o hits("word") \o hits("alias") \o hits("delta") \o hits("mode")

RECURSIVE SpellApplied(_, _, _)
\* out after the first k entries of order have been applied
SpellApplied(books, order, k) ==
  IF k = 0 THEN SpellDefaults
  ELSE LET prev == SpellApplied(books, order, k - 1)
           e == books[order[k]]
       IN IF e.triggerType = "delta" THEN applyDelta(prev, e.effect)
          ELSE applyEffect(prev, e.effect)

\* post-process: bpm -> beatMs
BeatMs(out) ==
  IF "bpm" \in DOMAIN out /\ "beatMs" \notin DOMAIN out
  THEN SetKey(out, "beatMs", 60000 \div Max(1, out.bpm))
  ELSE out

\* resolve(seed) over the classified books.  A pattern entry with a hit reaches
\* line 143, where the `in` operator is applied to the string
\* JSON.stringify(eff): that throws a TypeError before any effect is applied.
SpellResolveRun(books, seed) ==
  LET s == ToLowerCase(seed)
      n == Len(books)
      patternHit == \E i \in 1..n : books[i].triggerType = "pattern"
                                    /\ PatternMatch(books[i].trigger, s)
      o1 == ApplyPass(SpellDefaults, books, n, "phrase", s)
      o2 == ApplyPass(o1, books, n, "word", s)
      o3 == ApplyPass(o2, books, n, "alias", s)
      o4 == ApplyPass(o3, books, n, "delta", s)
      o5 == ApplyPass(o4, books, n, "mode", s)
  IN IF patternHit
     THEN [status |-> "throws", inits |-> 0, seed |-> <<>>, out |-> EmptyObject]
     ELSE [status |-> "ok", inits |-> 0, seed |-> <<>>, out |-> BeatMs(o5)]

NoInit == [pc |-> "idle", paths |-> <<>>, i |-> 0, all |-> <<>>]

(***************************************************************************)
(* The Verse resolver as a state machine.                                  *)
(***************************************************************************)
NoCall == [op |-> "none", pc |-> "idle", text |-> <<>>]

\* no loadBooks call has settled yet; books holds the outcome of each book fetch
\* of the latest Promise.all
NoLoad == [status |-> "none", books |-> <<>>]

\* result before any call, and the shape of a call that produced no bundle
NoResult(status) ==
  [status |-> status, wasLoaded |-> FALSE, text |-> <<>>,
   maxCountBefore |-> <<>>, precedenceBefore |-> <<>>,
   seedHash |-> <<0, 0>>, matches |-> <<>>, ordered |-> <<>>,
   params |-> EmptyObject, metaEvents |-> <<>>, laws |-> <<>>, masks |-> <<>>,
   silences |-> <<>>, selfOps |-> <<>>]

\* the state object resolve returns; wasLoaded, text, maxCountBefore,
\* precedenceBefore and ordered record the call it answers
Returned(r, wasLoaded, text, maxc, prec) ==
  [status |-> "ok", wasLoaded |-> wasLoaded, text |-> text,
   maxCountBefore |-> maxc, precedenceBefore |-> prec,
   seedHash |-> r.seedHash, matches |-> r.matches, ordered |-> r.ordered,
   params |-> r.session.params, metaEvents |-> r.session.metaEvents,
   laws |-> r.session.laws, masks |-> r.session.masks,
   silences |-> r.session.silences, selfOps |-> r.session.selfOps]

\* resolve once the library is loaded: runs to its return without suspending
RunResolve(idx, wasLoaded, text) ==
  LET r == ResolveLoaded(idx, maxCount, precedence, text) IN
  /\ result' = Returned(r, wasLoaded, text, maxCount, precedence)
  /\ maxCount' = r.session.maxCount
  /\ precedence' = r.session.precedence

\* loadBooks(): returns at once when loaded, else suspends on the manifest fetch
CallLoadBooks ==
  /\ call.op = "none"
  /\ IF loaded
     THEN /\ lastLoad' = [lastLoad EXCEPT !.status = "fulfilled"]
          /\ UNCHANGED call
     ELSE /\ call' = [op |-> "loadBooks", pc |-> "meta", text |-> <<>>]
          /\ UNCHANGED lastLoad
  /\ UNCHANGED <<manifest, loaded, index, precedence, maxCount, result>>
  /\ UNCHANGED spellVars

\* the awaited promise rejects: loadBooks rejects, and so does a resolve awaiting it
LoadRejects(oks) ==
  /\ lastLoad' = [status |-> "rejected", books |-> oks]
  /\ call' = NoCall
  /\ result' = IF call.op = "resolve" THEN NoResult("rejected") ELSE result
  /\ UNCHANGED <<manifest, loaded, index, precedence, maxCount>>

\* fetch('spellbooks/index.json').then(r => r.json()) settles
MetaSettles(ok) ==
  /\ call.pc = "meta"
  /\ IF ok
     THEN /\ call' = [call EXCEPT !.pc = "books"]
          /\ UNCHANGED <<manifest, loaded, index, precedence, maxCount, lastLoad, result>>
     ELSE LoadRejects(<<>>)
  /\ UNCHANGED spellVars

\* Promise.all over the book fetches settles; oks[i] tells whether the fetch and
\* parse of the i-th book succeeded
BooksSettle(oks) ==
  /\ call.pc = "books"
  /\ IF \A i \in 1..Len(manifest) : oks[i]
     THEN LET idx == BuildIndex([i \in 1..Len(manifest) |-> FileContent(manifest[i])]) IN
          /\ index' = idx
          /\ loaded' = TRUE
          /\ lastLoad' = [status |-> "fulfilled", books |-> oks]
          /\ call' = NoCall
          /\ IF call.op = "resolve"
             THEN RunResolve(idx, FALSE, call.text)
             ELSE UNCHANGED <<precedence, maxCount, result>>
          /\ UNCHANGED manifest
     ELSE LoadRejects(oks)
  /\ UNCHANGED spellVars

\* a resolve that awaits the loader even when the library is loaded
ResolveAlwaysAwaiting(text) ==
  /\ call.op = "none"
  /\ call' = [op |-> "resolve", pc |-> "meta", text |-> text]
  /\ UNCHANGED <<manifest, loaded, index, precedence, maxCount, lastLoad, result>>
  /\ UNCHANGED spellVars

\* resolve(text)
Resolve(text) ==
  /\ IF loaded
     THEN /\ RunResolve(index, TRUE, text)
          /\ UNCHANGED call
     ELSE /\ call.op = "none"
          /\ call' = [op |-> "resolve", pc |-> "meta", text |-> text]
          /\ UNCHANGED <<precedence, maxCount, result>>
  /\ UNCHANGED <<manifest, loaded, index, lastLoad>>
  /\ UNCHANGED spellVars

\* resolveSync(text)
ResolveSync(text) ==
  /\ IF loaded
     THEN RunResolve(index, TRUE, text)
     ELSE /\ result' = NoResult("throws")
          /\ UNCHANGED <<precedence, maxCount>>
  /\ UNCHANGED <<manifest, loaded, index, call, lastLoad>>
  /\ UNCHANGED spellVars

VerseInit ==
  /\ manifest \in Manifests
  /\ loaded = FALSE
  /\ index = <<>>
  /\ precedence = <<>>
  /\ maxCount = <<>>
  /\ call = NoCall
  /\ lastLoad = NoLoad
  /\ result = NoResult("none")

SpellIdle ==
  /\ srBooks = <<>>
  /\ srInit = NoInit
  /\ srInits = 0
  /\ srResult = [status |-> "none", inits |-> 0, seed |-> <<>>, out |-> EmptyObject]

Init == VerseInit /\ SpellIdle

Next ==
  \/ CallLoadBooks
  \/ \E ok \in BOOLEAN : MetaSettles(ok)
  \/ \E oks \in [1..Len(manifest) -> BOOLEAN] : BooksSettle(oks)
  \/ \E text \in Texts : Resolve(text)
  \/ \E text \in Texts : ResolveSync(text)

Spec == Init /\ [][Next]_vars

(***************************************************************************)
(* SpellResolver as a state machine.                                       *)
(***************************************************************************)
\* the init call ends: books = all; classify()
FinishInit(all) ==
  /\ srBooks' = all
  /\ srInit' = NoInit
  /\ srInits' = srInits + 1

\* the loop of init moves to the next path, or ends
NextPath(all) ==
  IF srInit.i = Len(srInit.paths)
  THEN FinishInit(all)
  ELSE /\ srInit' = [srInit EXCEPT !.pc = "fetch", !.i = @ + 1, !.all = all]
       /\ UNCHANGED <<srBooks, srInits>>

\* init(paths): runs to its first await
CallInit(paths) ==
  /\ srInit.pc = "idle"
  /\ srInits < MaxInits
  /\ IF paths = <<>>
     THEN FinishInit(<<>>)
     ELSE /\ srInit' = [pc |-> "fetch", paths |-> paths, i |-> 1, all |-> <<>>]
          /\ UNCHANGED <<srBooks, srInits>>
  /\ UNCHANGED srResult
  /\ UNCHANGED verseVars

\* await fetch(p): a failure is caught and the path skipped
FetchSettles(ok) ==
  /\ srInit.pc = "fetch"
  /\ IF ok
     THEN /\ srInit' = [srInit EXCEPT !.pc = "json"]
          /\ UNCHANGED <<srBooks, srInits>>
     ELSE NextPath(srInit.all)
  /\ UNCHANGED srResult
  /\ UNCHANGED verseVars

\* await r.json(): on success every entry is normalized and pushed
JsonSettles(ok) ==
  /\ srInit.pc = "json"
  /\ IF ok
     THEN NextPath(srInit.all \o SpellFileContent(srInit.paths[srInit.i]))
     ELSE NextPath(srInit.all)
  /\ UNCHANGED srResult
  /\ UNCHANGED verseVars

\* SpellResolver.resolve(seed)
SpellResolve(seed) ==
  /\ srResult' = [SpellResolveRun(srBooks, seed) EXCEPT !.inits = srInits, !.seed = seed]
  /\ UNCHANGED <<srBooks, srInit, srInits>>
  /\ UNCHANGED verseVars

\* the Verse resolver is left alone
VerseIdle ==
  /\ manifest = <<>>
  /\ loaded = FALSE
  /\ index = <<>>
  /\ precedence = <<>>
  /\ maxCount = <<>>
  /\ call = NoCall
  /\ lastLoad = NoLoad
  /\ result = NoResult("none")

SpellInit == VerseIdle /\ SpellIdle

SpellNext ==
  \/ \E paths \in SpellPathLists : CallInit(paths)
  \/ \E ok \in BOOLEAN : FetchSettles(ok)
  \/ \E ok \in BOOLEAN : JsonSettles(ok)
  \/ \E seed \in SpellSeeds : SpellResolve(seed)

SpecSpell == SpellInit /\ [][SpellNext]_vars

(***************************************************************************)
(* Properties.                                                             *)
(***************************************************************************)

\* C1: a resolution asked for before the rule database has finished loading
\* fails with a "not loaded" error; it never returns a bundle, default or
\* otherwise.  For SpellResolver: every bundle resolve returns was computed
\* after some init call had completed.
C1_NotLoadedFails ==
  srResult.status = "ok" => srResult.inits > 0

\* C2: when loadBooks fetches several books and some of the fetches fail while
\* others succeed, the load still completes, and the index holds exactly the
\* entries of the books that succeeded, in manifest order.
SucceededBooks ==
  LET n == Len(manifest)
      F[i \in 0..n] ==
        IF i = 0 THEN <<>>
        ELSE IF lastLoad.books[i] THEN Append(F[i - 1], FileContent(manifest[i]))
             ELSE F[i - 1]
  IN F[n]

C2_BestEffortLoad ==
  (/\ lastLoad.status # "none"
   /\ \E i \in 1..Len(lastLoad.books) : lastLoad.books[i]
   /\ \E i \in 1..Len(lastLoad.books) : ~lastLoad.books[i])
  => (/\ lastLoad.status = "fulfilled"
      /\ loaded
      /\ index = BuildIndex(SucceededBooks))

\* C3: a successful resolve returns a count of at least 0; the count is at most
\* the maximum in force when the resolution ends (the law-configured maxCount if
\* one is set, else 4000) whenever that maximum is not negative, and is 0 when
\* it is negative -- whatever the order in which count effects and law effects
\* were applied.
C3_CountWithinMax ==
  result.status = "ok" =>
    LET max == IF maxCount = <<>> THEN 4000 ELSE maxCount[1] IN
    /\ result.params.count >= 0
    /\ max >= 0 => result.params.count <= max
    /\ max < 0 => result.params.count = 0

\* C3 as first stated: the count lies between 0 and the maximum in force,
\* whatever that maximum is.
C3_CountBetweenZeroAndMax ==
  result.status = "ok" =>
    LET max == IF maxCount = <<>> THEN 4000 ELSE maxCount[1] IN
    /\ result.params.count >= 0
    /\ result.params.count <= max

\* a resolution that merged a count of 9999 and afterwards applied the law
\* setting maxCount to 100, and returned 100
C3_Witness ==
  /\ result.status = "ok"
  /\ result.maxCountBefore = <<>>
  /\ maxCount = <<100>>
  /\ result.params.count = 100
  /\ \E i, j \in 1..Len(result.ordered) :
       /\ i < j
       /\ "count" \in DOMAIN index[result.ordered[i]].effect
       /\ index[result.ordered[i]].effect.count = 9999
       /\ "laws" \in DOMAIN index[result.ordered[j]].effect

\* the last maxCount guard among the law effects a resolution applied: <<M>>, or
\* <<>> when it applied none
LastGuard(laws) ==
  LET F[i \in 0..Len(laws)] ==
        IF i = 0 THEN <<>>
        ELSE IF "guards" \in DOMAIN laws[i] /\ "maxCount" \in DOMAIN laws[i].guards
             THEN <<laws[i].guards.maxCount>>
             ELSE F[i - 1]
  IN F[Len(laws)]

\* the last precedence list among the law effects a resolution applied
LastPrecedence(laws) ==
  LET F[i \in 0..Len(laws)] ==
        IF i = 0 THEN <<>>
        ELSE IF "precedence" \in DOMAIN laws[i] THEN <<laws[i].precedence>> ELSE F[i - 1]
  IN F[Len(laws)]

\* C4: law configuration outlasts the resolution that applied it.  A resolve
\* call that applied a law with guards.maxCount = M leaves M as the library's
\* maximum, and one that applied a precedence list L leaves L as the library's
\* precedence; a call that starts under a maximum M and applies no new guard
\* returns a count of at most M, and a call that starts under L orders its
\* matches by L.
C4_LawOutlasts ==
  result.status = "ok" =>
    /\ LastGuard(result.laws) # <<>> => maxCount = LastGuard(result.laws)
    /\ LastPrecedence(result.laws) # <<>> => precedence = LastPrecedence(result.laws)[1]
    /\ (LastGuard(result.laws) = <<>> /\ result.maxCountBefore # <<>>)
         => result.params.count <= result.maxCountBefore[1]
    /\ result.ordered = OrderHits(result.matches, index, result.precedenceBefore)

\* where a domain stands in a precedence list; behind the list when unlisted
PlaceIn(L, d) ==
  IF \E i \in 1..Len(L) : L[i] = d
  THEN CHOOSE i \in 1..Len(L) : L[i] = d /\ \A j \in 1..(i - 1) : L[j] # d
  ELSE Len(L) + 1

\* C5: with a non-empty precedence list in force the matched rules are applied
\* in ascending position of their domain in the list, rules of unlisted domains
\* after every listed one and rules of equal rank in database order; with an
\* empty list they are applied in database order.
C5_PrecedenceOrder ==
  result.status = "ok" =>
    LET L == result.precedenceBefore
        o == result.ordered
        m == result.matches
    IN /\ Len(o) = Len(m)
       /\ {o[k] : k \in 1..Len(o)} = {m[k] : k \in 1..Len(m)}
       /\ L = <<>> => o = m
       /\ L # <<>> =>
            \A i, j \in 1..Len(o) :
              i < j =>
                \/ PlaceIn(L, index[o[i]].domain) < PlaceIn(L, index[o[j]].domain)
                \/ /\ PlaceIn(L, index[o[i]].domain) = PlaceIn(L, index[o[j]].domain)
                   /\ o[i] < o[j]

\* a resolution under a precedence list that moved a rule ahead of an earlier
\* one, with two rules of an unlisted domain among its matches
C5_Witness ==
  /\ result.status = "ok"
  /\ result.precedenceBefore # <<>>
  /\ result.ordered # result.matches
  /\ \E i, j \in 1..Len(result.ordered) :
       /\ i < j
       /\ index[result.ordered[i]].domain = index[result.ordered[j]].domain
       /\ PlaceIn(result.precedenceBefore, index[result.ordered[i]].domain)
            = Len(result.precedenceBefore) + 1

\* C6: a rule of type fallback is in the hit set of matchTriggers if and only if
\* no rule of any other type is in it; and when no rule of another type is hit,
\* the hit set is exactly the fallback rules, in database order.
C6_FallbackExclusive ==
  result.status = "ok" =>
    LET m == result.matches
        fallbackTyped(p) == index[p].type = "fallback"
        inHits(p) == \E k \in 1..Len(m) : m[k] = p
        otherHit == \E k \in 1..Len(m) : ~fallbackTyped(m[k])
    IN /\ \A p \in 1..Len(index) : fallbackTyped(p) => (inHits(p) <=> ~otherHit)
       /\ ~otherHit => m = Positions([p \in 1..Len(index) |-> fallbackTyped(p)], 1)

\* the side-channel buckets of a session
Buckets == {"metaEvents", "laws", "masks", "silences", "selfOps"}

\* the bucket an event name is dispatched to
BucketOf(event) ==
  CASE event \in {"law", "Law"} -> "laws"
    [] event = "mask" -> "masks"
    [] event = "silence" -> "silences"
    [] event = "self" -> "selfOps"
    [] OTHER -> "metaEvents"

\* C7: whatever the rule's trigger type, applying a rule whose effect carries an
\* event leaves the plain parameters as they were before that step and appends
\* to exactly one side-channel bucket, the one chosen by the event name.
C7_EventsOnlyRouted ==
  result.status = "ok" =>
    \A k \in 1..Len(result.ordered) :
      LET ent == index[result.ordered[k]]
          start == NewSession(result.maxCountBefore, result.precedenceBefore)
          before == ApplyAll(start, result.ordered, k - 1, index, result.seedHash)
          after == ApplyAll(start, result.ordered, k, index, result.seedHash)
      IN "event" \in DOMAIN ent.effect =>
           /\ after.params = before.params
           /\ \A b \in Buckets :
                Len(after[b]) = Len(before[b])
                  + (IF b = BucketOf(ent.effect.event) THEN 1 ELSE 0)

DigitValue(c) ==
  CASE c = "0" -> 0 [] c = "1" -> 1 [] c = "2" -> 2 [] c = "3" -> 3 [] c = "4" -> 4
    [] c = "5" -> 5 [] c = "6" -> 6 [] c = "7" -> 7 [] c = "8" -> 8 [] c = "9" -> 9

NumberValue(n) ==
  LET F[i \in 0..Len(n)] == IF i = 0 THEN 0 ELSE (10 * F[i - 1]) + DigitValue(n[i])
  IN F[Len(n)]

\* C9: with the database {pattern <number> -> count <int>, word ring -> shape
\* ring, word calm -> tremor 0.1}, SpellResolver.resolve of "n ring calm", n a
\* number of one to five digits, raises no error and returns count n, shape
\* ring, tremor 0.1, tide 0.45 and trails 0.90.
C9_NumberRingCalm ==
  \A n \in ScenarioNumbers :
    (/\ Len(n) <= 5
     /\ srResult.status # "none"
     /\ srResult.seed = ScenarioSeed(n)
     /\ srResult.inits = srInits
     /\ srBooks = SpellFileContent("/spellbooks/core.json"))
    => (/\ srResult.status = "ok"
        /\ srResult.out.count = NumberValue(n)
        /\ srResult.out.shape = "ring"
        /\ srResult.out.tremor = 10
        /\ srResult.out.tide = 45
        /\ srResult.out.trails = 90)

\* C10: whatever numeric effects the database holds and whatever the seed, the
\* bundle SpellResolver.resolve returns has tremor in [0, 1.2], tide in
\* [0, 0.9] and trails in [0.75, 0.98].
C10_MotionRanges ==
  srResult.status = "ok" =>
    /\ srResult.out.tremor >= 0 /\ srResult.out.tremor <= 120
    /\ srResult.out.tide >= 0 /\ srResult.out.tide <= 90
    /\ srResult.out.trails >= 75 /\ srResult.out.trails <= 98

\* C11: within one SpellResolver.resolve call the rate fields divisionRate,
\* deathRate and branchRate never decrease: after each applied effect a rate
\* is at least what it was before (0 while absent) and lies in [0, 1]; the
\* value returned is the largest of the incoming values clamped to [0, 1],
\* whatever the order of the rules.
C11_RatesMonotone ==
  (srResult.status = "ok" /\ srResult.inits = srInits) =>
    LET s == ToLowerCase(srResult.seed)
        order == SpellOrder(srBooks, s)
        at(k) == SpellApplied(srBooks, order, k)
        val(o, r) == IF r \in DOMAIN o THEN o[r] ELSE 0
        incoming(r) == {Max(0, Min(100, srBooks[order[k]].effect[r])) :
                          k \in {j \in 1..Len(order) :
                                   /\ srBooks[order[j]].triggerType # "delta"
                                   /\ r \in DOMAIN srBooks[order[j]].effect}}
    IN /\ srResult.out = BeatMs(at(Len(order)))
       /\ \A r \in RATE01 :
            /\ \A k \in 1..Len(order) :
                 /\ val(at(k), r) >= val(at(k - 1), r)
                 /\ val(at(k), r) >= 0 /\ val(at(k), r) <= 100
            /\ incoming(r) = {} => r \notin DOMAIN srResult.out
            /\ incoming(r) # {} =>
                 /\ srResult.out[r] \in incoming(r)
                 /\ \A v \in incoming(r) : v <= srResult.out[r]

\* a resolution that applied a larger rate first and a smaller one after it, and
\* a negative rate before a positive one
C11_Witness ==
  /\ srResult.status = "ok"
  /\ srResult.inits = srInits
  /\ "divisionRate" \in DOMAIN srResult.out
  /\ srResult.out.divisionRate = 100
  /\ "deathRate" \in DOMAIN srResult.out
  /\ srResult.out.deathRate = 60
  /\ \E i, j \in 1..Len(srBooks) :
       /\ "divisionRate" \in DOMAIN srBooks[i].effect
       /\ srBooks[i].effect.divisionRate = 30
       /\ Includes(ToLowerCase(srResult.seed), srBooks[i].trigger)
       /\ "deathRate" \in DOMAIN srBooks[j].effect
       /\ srBooks[j].effect.deathRate < 0
       /\ Includes(ToLowerCase(srResult.seed), srBooks[j].trigger)

\* C12: a word-typed rule fires only when its trigger equals one of the
\* alphanumeric tokens of the lower-cased text, never because the trigger
\* occurs inside a longer token.  For the word pass of SpellResolver.resolve:
\* every word entry the call applied has its trigger among the tokens of the
\* seed.
C12_WordTokens ==
  (srResult.status = "ok" /\ srResult.inits = srInits) =>
    LET order == SpellOrder(srBooks, ToLowerCase(srResult.seed)) IN
    \A k \in 1..Len(order) :
      srBooks[order[k]].triggerType = "word" =>
        ArrIncludes(tokenize(srResult.seed).words, srBooks[order[k]].trigger)

\* C13: when the index holds a wildcard rule with trigger '*' and the flag
\* hashToShape (hashToCount, hashToColor), the shape (count, hue) resolve
\* returns is the one computed from the 32-bit hash of the text -- SHAPES[hash
\* mod 9], clamp(hash mod 2000 + 100) under the maximum in force, hash mod 360
\* -- whatever other rules match and wherever the wildcard rule sits.
C13_WildcardOutcome ==
  result.status = "ok" =>
    LET h == result.seedHash
        flagged(k) == \E p \in 1..Len(index) :
                        /\ index[p].type = "wildcard"
                        /\ index[p].trigger = <<"*">>
                        /\ k \in DOMAIN index[p].effect
                        /\ index[p].effect[k] = TRUE
    IN /\ flagged("hashToShape") =>
            /\ "shape" \in DOMAIN result.params
            /\ result.params.shape = SHAPES[Mod32(h, 9) + 1]
       /\ flagged("hashToCount") =>
            result.params.count = Max(0, Min(MaxCountOf(maxCount), Mod32(h, 2000) + 100))
       /\ flagged("hashToColor") =>
            /\ "hue" \in DOMAIN result.params
            /\ result.params.hue = Mod32(h, 360)

\* C14: law effects are the only thing that changes state across resolve
\* calls: a resolve call on a loaded library that applied no law effect leaves
\* maxCount, precedence and the index exactly as they were before the call.
C14_OnlyLawsPersist ==
  [][(/\ loaded
      /\ result'.status = "ok"
      /\ Len(result'.laws) = 0)
     => (/\ maxCount' = maxCount
         /\ precedence' = precedence
         /\ index' = index)]_vars

\* a resolution without law effect, with matches, of a library whose maxCount
\* and precedence earlier laws had set
C14_Witness ==
  /\ result.status = "ok"
  /\ result.wasLoaded
  /\ Len(result.laws) = 0
  /\ Len(result.matches) > 0
  /\ Len(result.metaEvents) > 0
  /\ result.maxCountBefore # <<>>
  /\ result.precedenceBefore # <<>>
  /\ maxCount = result.maxCountBefore
  /\ precedence = result.precedenceBefore

====
